---------------------------- MODULE Spec2Model ----------------------------
(***************************************************************************)
(* A model of go-env-validator (package envParser): the tag parser, the    *)
(* type-directed coercion `set`, the recursive walk `unmarshal`, the       *)
(* conversion of KEY=VALUE lines to a mapping and the validator hook.      *)
(*                                                                         *)
(* A Go string is a sequence of one-character strings: "A=1" is            *)
(* <<"A", "=", "1">> and "" is << >>.  The NUL character is written "NUL". *)
(***************************************************************************)
EXTENDS Integers, Sequences, FiniteSets, TLC

(***************************************************************************)
(* Package strings.                                                        *)
(***************************************************************************)

\* The least element of a non-empty set of integers.
MinOf(S) ==
    CHOOSE m \in S : \A n \in S : m <= n

\* strings.Index: the position of the first occurrence of sep in s, 0 when
\* there is none (Go answers -1 and counts from 0).
Index(s, sep) ==
    LET at == {j \in 1..(Len(s) - Len(sep) + 1) : SubSeq(s, j, j + Len(sep) - 1) = sep}
    IN  IF at = {} THEN 0 ELSE MinOf(at)

\* strings.HasPrefix
HasPrefix(s, prefix) ==
    /\ Len(s) >= Len(prefix)
    /\ SubSeq(s, 1, Len(prefix)) = prefix

\* strings.Split(s, sep): an empty sep explodes s into its characters,
\* otherwise s is cut at every non-overlapping occurrence of sep, left to
\* right, which gives Count(s, sep) + 1 parts.
RECURSIVE Split(_, _)
Split(s, sep) ==
    IF sep = << >>
    THEN [i \in 1..Len(s) |-> <<s[i]>>]
    ELSE LET i == Index(s, sep)
         IN  IF i = 0
             THEN <<s>>
             ELSE <<SubSeq(s, 1, i - 1)>> \o Split(SubSeq(s, i + Len(sep), Len(s)), sep)

\* strings.SplitN(s, sep, 2) for a non-empty sep: cut at the first sep only.
SplitN2(s, sep) ==
    LET i == Index(s, sep)
    IN  IF i = 0
        THEN <<s>>
        ELSE <<SubSeq(s, 1, i - 1), SubSeq(s, i + Len(sep), Len(s))>>

\* strings.ReplaceAll(s, old, new) for a non-empty old.
RECURSIVE ReplaceAll(_, _, _)
ReplaceAll(s, old, new) ==
    LET i == Index(s, old)
    IN  IF i = 0
        THEN s
        ELSE SubSeq(s, 1, i - 1) \o new \o ReplaceAll(SubSeq(s, i + Len(old), Len(s)), old, new)

UpperChars ==
    <<"A", "B", "C", "D", "E", "F", "G", "H", "I", "J", "K", "L", "M",
      "N", "O", "P", "Q", "R", "S", "T", "U", "V", "W", "X", "Y", "Z">>

LowerChars ==
    <<"a", "b", "c", "d", "e", "f", "g", "h", "i", "j", "k", "l", "m",
      "n", "o", "p", "q", "r", "s", "t", "u", "v", "w", "x", "y", "z">>

\* strings.ToLower on ASCII text.
ToLower(s) ==
    [i \in 1..Len(s) |->
        IF \E k \in 1..26 : UpperChars[k] = s[i]
        THEN LowerChars[CHOOSE k \in 1..26 : UpperChars[k] = s[i]]
        ELSE s[i]]

\* The ASCII white space unicode.IsSpace knows.
SpaceChars ==
    {" ", "\t", "\n", "\r", "\f"}

\* strings.TrimRight(s, cutset)
RECURSIVE TrimRight(_, _)
TrimRight(s, cutset) ==
    IF s # << >> /\ s[Len(s)] \in cutset
    THEN TrimRight(SubSeq(s, 1, Len(s) - 1), cutset)
    ELSE s

\* strings.TrimLeft(s, cutset)
RECURSIVE TrimLeft(_, _)
TrimLeft(s, cutset) ==
    IF s # << >> /\ s[1] \in cutset
    THEN TrimLeft(Tail(s), cutset)
    ELSE s

\* strings.TrimSpace
TrimSpace(s) ==
    TrimLeft(TrimRight(s, SpaceChars), SpaceChars)

(***************************************************************************)
(* Process-wide state (parser.go, lines 14-30) and the state of one call.  *)
(***************************************************************************)
VARIABLES
    Separator,  \* the package variable Separator
    validator,  \* the package variable validator (the registration slot)
    pc,         \* where the caller is: idle, getValidator, validate, returned
    target,     \* the argument v of the call: its type and the value it points to
    arg,        \* the call: its name, the raw entries it converted, whether
                \* it reached Unmarshal and the mapping it passed to it
    envs,       \* the source mapping (the caller's map, mutated in place)
    err,        \* what unmarshal (or the conversion before it) returned
    val,        \* what getValidator returned to Unmarshal
    structCalls,\* the records Validator.Struct was invoked with, in order
    result,     \* what the call returned: an error, NoError, or NotReturned
    fn,         \* one application of a pure function: its input and output
    validatorMu,\* the package variable validatorMu (the sync.RWMutex)
    threads,    \* the goroutines that call the package concurrently: for
                \* each its position and the locals of its call
    stored      \* the validators the goroutines' calls of SetValidator have
                \* stored

vars ==
    <<Separator, validator, pc, target, arg, envs, err, val, structCalls, result, fn,
      validatorMu, threads, stored>>

(***************************************************************************)
(* Errors.  The nil error is NoError.  errors.Join(a, b) is nil when both  *)
(* are nil and otherwise a new error holding the non-nil ones, in order;   *)
(* a joined error joined again is nested, not flattened.                   *)
(***************************************************************************)
NoError ==
    [e |-> "nil"]

ErrInvalidEnviron ==
    [e |-> "items environ must have valid format key=value"]

ErrInvalidValue ==
    [e |-> "value must be a non-nil pointer to a struct"]

ErrUnsupportedType ==
    [e |-> "field is an unsupported type"]

\* *strconv.NumError{Func: func, Num: num, Err: strconv.ErrSyntax}
NumError(func, num) ==
    [e |-> "invalid syntax", func |-> func, num |-> num]

\* fmt.Errorf("invalid map entry: %s", pair)
InvalidMapEntry(pair) ==
    [e |-> "invalid map entry", pair |-> pair]

\* fmt.Errorf("field %s is not exported", name)
NotExported(name) ==
    [e |-> "field is not exported", field |-> name]

\* fmt.Errorf("required field: %s not found", key)
RequiredNotFound(key) ==
    [e |-> "required field not found", key |-> key]

\* errors.Join(a, b)
Join(a, b) ==
    IF a = NoError /\ b = NoError
    THEN NoError
    ELSE [e |-> "join", errs |-> SelectSeq(<<a, b>>, LAMBDA x : x # NoError)]

\* The errors an error holds, in the order its message lists them: the
\* leaves of the tree errors.Join has built.
RECURSIVE Leaves(_)
Leaves(x) ==
    IF x = NoError
    THEN << >>
    ELSE IF x.e = "join"
         THEN IF Len(x.errs) = 1
              THEN Leaves(x.errs[1])
              ELSE Leaves(x.errs[1]) \o Leaves(x.errs[2])
         ELSE <<x>>

(***************************************************************************)
(* Package strconv.  The texts of the model are shorter than ten           *)
(* characters, so a number they denote is below 2^63 and the range error   *)
(* of Atoi and ParseUint cannot arise.                                     *)
(***************************************************************************)
Digits ==
    <<"0", "1", "2", "3", "4", "5", "6", "7", "8", "9">>

IsDigit(c) ==
    \E d \in 1..10 : Digits[d] = c

DigitValue(c) ==
    (CHOOSE d \in 1..10 : Digits[d] = c) - 1

IsDigits(s) ==
    /\ s # << >>
    /\ \A i \in 1..Len(s) : IsDigit(s[i])

RECURSIVE DecimalValue(_)
DecimalValue(s) ==
    IF s = << >>
    THEN 0
    ELSE 10 * DecimalValue(SubSeq(s, 1, Len(s) - 1)) + DigitValue(s[Len(s)])

\* strconv.Atoi: an optional sign, then one or more decimal digits.
Atoi(s) ==
    LET signed == s # << >> /\ s[1] \in {"+", "-"}
        body == IF signed THEN Tail(s) ELSE s
    IN  IF IsDigits(body)
        THEN [err |-> NoError,
              n |-> IF signed /\ s[1] = "-" THEN 0 - DecimalValue(body) ELSE DecimalValue(body)]
        ELSE [err |-> NumError("Atoi", s), n |-> 0]

\* strconv.ParseUint(s, 10, 64): one or more decimal digits, no sign.
ParseUint(s) ==
    IF IsDigits(s)
    THEN [err |-> NoError, n |-> DecimalValue(s)]
    ELSE [err |-> NumError("ParseUint", s), n |-> 0]

\* strconv.ParseBool
ParseBool(s) ==
    IF s \in {<<"1">>, <<"t">>, <<"T">>, <<"t", "r", "u", "e">>,
              <<"T", "R", "U", "E">>, <<"T", "r", "u", "e">>}
    THEN [err |-> NoError, b |-> TRUE]
    ELSE IF s \in {<<"0">>, <<"f">>, <<"F">>, <<"f", "a", "l", "s", "e">>,
                   <<"F", "A", "L", "S", "E">>, <<"F", "a", "l", "s", "e">>}
         THEN [err |-> NoError, b |-> FALSE]
         ELSE [err |-> NumError("ParseBool", s), b |-> FALSE]

(***************************************************************************)
(* Types (reflect.Type) and values (reflect.Value).                        *)
(*                                                                         *)
(* A type is a record with a field kind: String, Bool, Int, Int8, Uint,    *)
(* Uint8, Chan, Ptr and Slice (with elem), Map (with key and elem) and     *)
(* Struct (with fields, each [name, exported, tag, type]).  Floats and     *)
(* time.Duration are outside the types of the model.                       *)
(***************************************************************************)
TString ==
    [kind |-> "String"]

TBool ==
    [kind |-> "Bool"]

TInt ==
    [kind |-> "Int"]

TInt8 ==
    [kind |-> "Int8"]

TUint ==
    [kind |-> "Uint"]

TUint8 ==
    [kind |-> "Uint8"]

TChan ==
    [kind |-> "Chan"]

TPtr(t) ==
    [kind |-> "Ptr", elem |-> t]

TSlice(t) ==
    [kind |-> "Slice", elem |-> t]

TMap(k, t) ==
    [kind |-> "Map", key |-> k, elem |-> t]

TStruct(fields) ==
    [kind |-> "Struct", fields |-> fields]

\* A struct field: reflect.StructField with the value of its env tag
\* (the empty text when it has none) and whether it is exported.
Field(name, exported, tag, type) ==
    [name |-> name, exported |-> exported, tag |-> tag, type |-> type]

IntKinds ==
    {"Int", "Int8"}

UintKinds ==
    {"Uint", "Uint8"}

StringValue(s) ==
    [k |-> "string", s |-> s]

BoolValue(b) ==
    [k |-> "bool", b |-> b]

IntValue(n) ==
    [k |-> "int", n |-> n]

NilValue ==
    [k |-> "nil"]

PtrValue(x) ==
    [k |-> "ptr", to |-> x]

SliceValue(elems) ==
    [k |-> "slice", elems |-> elems]

\* A map value holds a function from its keys to their values.
MapValue(m) ==
    [k |-> "map", m |-> m]

StructValue(fields) ==
    [k |-> "struct", fields |-> fields]

\* The zero value of a type: what a field holds before anything is set.
RECURSIVE ZeroValue(_)
ZeroValue(t) ==
    CASE t.kind = "String" -> StringValue(<< >>)
      [] t.kind = "Bool" -> BoolValue(FALSE)
      [] t.kind \in IntKinds \cup UintKinds -> IntValue(0)
      [] t.kind = "Struct" ->
            StructValue([i \in 1..Len(t.fields) |-> ZeroValue(t.fields[i].type)])
      [] OTHER -> NilValue

\* What an integer of the given kind keeps of x: reflect's SetInt and
\* SetUint convert to the field's width (int8(x), uint8(x), ...).
Convert(kind, x) ==
    CASE kind = "Int8" -> ((x + 128) % 256) - 128
      [] kind = "Uint8" -> x % 256
      [] OTHER -> x

(***************************************************************************)
(* set (parser.go, lines 258-357): the coercion of one text into a field   *)
(* of type t.  It answers the error and the field's value afterwards,      *)
(* which is f itself whenever the coercion fails.                          *)
(***************************************************************************)
RECURSIVE set(_, _, _, _)
RECURSIVE setElems(_, _, _, _, _)
RECURSIVE setPairs(_, _, _, _, _)

\* The loop, were an element that is not coerced left at its zero value.
setElemsSkipsFailures(t, dest, values, i, sliceSeparator) ==
    IF i > Len(values)
    THEN [err |-> NoError, dest |-> dest]
    ELSE LET r == set(t.elem, dest[i], values[i], sliceSeparator)
         IN  setElems(t, [dest EXCEPT ![i] = r.f], values, i + 1, sliceSeparator)

\* The loop, were an element that is itself a slice or a map to have no
\* coercion rule.
setElemsOneLevel(t, dest, values, i, sliceSeparator) ==
    IF i > Len(values)
    THEN [err |-> NoError, dest |-> dest]
    ELSE IF t.elem.kind \in {"Slice", "Map"}
    THEN [err |-> ErrUnsupportedType, dest |-> dest]
    ELSE LET r == set(t.elem, dest[i], values[i], sliceSeparator)
         IN  IF r.err # NoError
             THEN [err |-> r.err, dest |-> dest]
             ELSE setElems(t, [dest EXCEPT ![i] = r.f], values, i + 1, sliceSeparator)

\* The loop of lines 318-322 from element i on: dest is the slice built so
\* far, values the parts of the text.
setElems(t, dest, values, i, sliceSeparator) ==
    IF i > Len(values)
    THEN [err |-> NoError, dest |-> dest]
    ELSE LET r == set(t.elem, dest[i], values[i], sliceSeparator)
         IN  IF r.err # NoError
             THEN [err |-> r.err, dest |-> dest]
             ELSE setElems(t, [dest EXCEPT ![i] = r.f], values, i + 1, sliceSeparator)

\* The loop, were a key already in the map to keep its first value.
setPairsFirstWins(t, dest, pairs, i, sliceSeparator) ==
    IF i > Len(pairs)
    THEN [err |-> NoError, dest |-> dest]
    ELSE LET kv == SplitN2(pairs[i], <<":">>)
         IN  IF Len(kv) # 2
             THEN [err |-> InvalidMapEntry(pairs[i]), dest |-> dest]
             ELSE LET r == set(t.elem, ZeroValue(t.elem), kv[2], sliceSeparator)
                  IN  IF r.err # NoError
                      THEN [err |-> r.err, dest |-> dest]
                      ELSE setPairs(t, dest @@ (kv[1] :> r.f), pairs, i + 1, sliceSeparator)

\* The loop of lines 338-350 from pair i on: dest is the map built so far.
setPairs(t, dest, pairs, i, sliceSeparator) ==
    IF i > Len(pairs)
    THEN [err |-> NoError, dest |-> dest]
    ELSE LET kv == SplitN2(pairs[i], <<":">>)
         IN  IF Len(kv) # 2
             THEN [err |-> InvalidMapEntry(pairs[i]), dest |-> dest]
             ELSE LET r == set(t.elem, ZeroValue(t.elem), kv[2], sliceSeparator)
                  IN  IF r.err # NoError
                      THEN [err |-> r.err, dest |-> dest]
                      ELSE setPairs(t, (kv[1] :> r.f) @@ dest, pairs, i + 1, sliceSeparator)

set(t, f, value, sliceSeparator) ==
    CASE t.kind = "Ptr" ->
            LET r == set(t.elem, ZeroValue(t.elem), value, sliceSeparator)
            IN  IF r.err # NoError
                THEN [err |-> r.err, f |-> f]
                ELSE [err |-> NoError, f |-> PtrValue(r.f)]
      [] t.kind = "String" ->
            [err |-> NoError, f |-> StringValue(value)]
      [] t.kind = "Bool" ->
            LET r == ParseBool(value)
            IN  IF r.err # NoError
                THEN [err |-> r.err, f |-> f]
                ELSE [err |-> NoError, f |-> BoolValue(r.b)]
      [] t.kind \in IntKinds ->
            LET r == Atoi(value)
            IN  IF r.err # NoError
                THEN [err |-> r.err, f |-> f]
                ELSE [err |-> NoError, f |-> IntValue(Convert(t.kind, r.n))]
      [] t.kind \in UintKinds ->
            LET r == ParseUint(value)
            IN  IF r.err # NoError
                THEN [err |-> r.err, f |-> f]
                ELSE [err |-> NoError, f |-> IntValue(Convert(t.kind, r.n))]
      [] t.kind = "Slice" ->
            LET sep == IF sliceSeparator = << >> THEN Separator ELSE sliceSeparator
                values == Split(value, sep)
            IN  IF t.elem.kind = "String"
                THEN [err |-> NoError,
                      f |-> SliceValue([i \in 1..Len(values) |-> StringValue(values[i])])]
                ELSE LET r == setElems(t, [i \in 1..Len(values) |-> ZeroValue(t.elem)],
                                       values, 1, sep)
                     IN  IF r.err # NoError
                         THEN [err |-> r.err, f |-> f]
                         ELSE [err |-> NoError, f |-> SliceValue(r.dest)]
      [] t.kind = "Map" ->
            LET sep == IF sliceSeparator = << >> THEN Separator ELSE sliceSeparator
            IN  IF t.key.kind # "String"
                THEN [err |-> ErrUnsupportedType, f |-> f]
                ELSE IF value = << >>
                     THEN [err |-> NoError, f |-> MapValue(<< >>)]
                     ELSE LET r == setPairs(t, << >>, Split(value, sep), 1, sep)
                          IN  IF r.err # NoError
                              THEN [err |-> r.err, f |-> f]
                              ELSE [err |-> NoError, f |-> MapValue(r.dest)]
      [] OTHER ->
            [err |-> ErrUnsupportedType, f |-> f]

(***************************************************************************)
(* parseTag (parser.go, lines 223-256).                                    *)
(***************************************************************************)
escapedComma ==
    <<"NUL">>

\* The loop of lines 233-253 over the modifiers keys[i], keys[i+1], ...
RECURSIVE parseModifiers(_, _, _)
parseModifiers(tf, keys, i) ==
    IF i > Len(keys)
    THEN tf
    ELSE LET keyData == SplitN2(keys[i], <<"=">>)
             name == ToLower(keyData[1])
         IN  CASE name = <<"r", "e", "q", "u", "i", "r", "e", "d">> ->
                    parseModifiers([tf EXCEPT !.Required = TRUE], keys, i + 1)
               [] name = <<"d", "e", "f", "a", "u", "l", "t">> ->
                    IF Len(keyData) # 2
                    THEN parseModifiers(tf, keys, i + 1)
                    ELSE parseModifiers(
                            [tf EXCEPT !.Default = ReplaceAll(keyData[2], escapedComma, <<",">>)],
                            keys, i + 1)
               [] name = <<"s", "e", "p", "a", "r", "a", "t", "o", "r">> ->
                    IF Len(keyData) # 2
                    THEN parseModifiers(tf, keys, i + 1)
                    ELSE parseModifiers(
                            [tf EXCEPT !.Separator = ReplaceAll(keyData[2], escapedComma, <<",">>)],
                            keys, i + 1)
               [] OTHER ->
                    parseModifiers(tf, keys, i + 1)

parseTag(tag) ==
    LET envKeys == Split(ReplaceAll(tag, <<"\\", ",">>, escapedComma), <<",">>)
    IN  parseModifiers(
            [Key |-> envKeys[1], Default |-> << >>, Required |-> FALSE, Separator |-> Separator],
            envKeys, 2)

(***************************************************************************)
(* unmarshal (parser.go, lines 158-221).                                   *)
(*                                                                         *)
(* The argument v is [type, nil, value]: the dynamic type of the interface *)
(* value, whether a pointer is nil, and what a non-nil pointer points to.  *)
(* A source mapping is a function from key texts to value texts.           *)
(***************************************************************************)
\* delete(envs, key)
delete(m, key) ==
    [k \in DOMAIN m \ {key} |-> m[k]]

RECURSIVE unmarshalFields(_, _, _)
RECURSIVE unmarshalField(_, _, _)

\* The application, were the key deleted whether or not set succeeded.
appliedAlwaysDeletes(st, i, key, r) ==
    IF r.err # NoError
    THEN [envs |-> delete(st.envs, key),
          fields |-> st.fields,
          err |-> Join(st.err, r.err)]
    ELSE [envs |-> delete(st.envs, key),
          fields |-> [st.fields EXCEPT ![i] = r.f],
          err |-> st.err]

\* The application, were the key left in the mapping.
appliedKeepsKey(st, i, key, r) ==
    IF r.err # NoError
    THEN [st EXCEPT !.err = Join(st.err, r.err)]
    ELSE [st EXCEPT !.fields = [st.fields EXCEPT ![i] = r.f]]

\* Lines 212-217: r is what set answered for the field.  A key that is not
\* in the mapping (the value came from the default) is deleted to no effect.
applied(st, i, key, r) ==
    IF r.err # NoError
    THEN [st EXCEPT !.err = Join(st.err, r.err)]
    ELSE [envs |-> delete(st.envs, key),
          fields |-> [st.fields EXCEPT ![i] = r.f],
          err |-> st.err]

\* The lookup, were an empty value in the mapping to count as no value.
resolvedEmptyAsAbsent(typeField, st, i, tf) ==
    IF (tf.Key \notin DOMAIN st.envs \/ st.envs[tf.Key] = << >>) /\ tf.Required /\ tf.Default = << >>
    THEN [st EXCEPT !.err = Join(st.err, RequiredNotFound(tf.Key))]
    ELSE IF (tf.Key \notin DOMAIN st.envs \/ st.envs[tf.Key] = << >>) /\ tf.Default = << >>
    THEN st
    ELSE applied(st, i, tf.Key,
                 set(typeField.type, st.fields[i],
                     IF tf.Key \in DOMAIN st.envs /\ st.envs[tf.Key] # << >>
                     THEN st.envs[tf.Key]
                     ELSE tf.Default,
                     tf.Separator))

\* Lines 198-217: the field is looked up under the descriptor tf.
resolved(typeField, st, i, tf) ==
    IF tf.Key \notin DOMAIN st.envs /\ tf.Required /\ tf.Default = << >>
    THEN [st EXCEPT !.err = Join(st.err, RequiredNotFound(tf.Key))]
    ELSE IF tf.Key \notin DOMAIN st.envs /\ tf.Default = << >>
    THEN st
    ELSE applied(st, i, tf.Key,
                 set(typeField.type, st.fields[i],
                     IF tf.Key \in DOMAIN st.envs THEN st.envs[tf.Key] ELSE tf.Default,
                     tf.Separator))

\* Lines 185-217: the field's own tag.  CanSet holds of the exported
\* fields, the record being reached through a pointer.
tagged(typeField, st, i) ==
    IF typeField.tag = << >>
    THEN st
    ELSE IF ~typeField.exported
    THEN [st EXCEPT !.err = Join(st.err, NotExported(typeField.name))]
    ELSE resolved(typeField, st, i, parseTag(typeField.tag))

\* Lines 179-183: sub is what the recursion into field i answered.  Its
\* error is joined and ends the field; without one the field goes on to its
\* own tag.
recursed(typeField, st, i, sub) ==
    IF sub.err # NoError
    THEN [envs |-> sub.envs,
          fields |-> [st.fields EXCEPT ![i] = StructValue(sub.fields)],
          err |-> Join(st.err, sub.err)]
    ELSE tagged(typeField,
                [envs |-> sub.envs,
                 fields |-> [st.fields EXCEPT ![i] = StructValue(sub.fields)],
                 err |-> st.err],
                i)

\* The body of the loop of lines 172-218 for field i of the struct type t.
\* st is [envs, fields, err]: the mapping, the values of the struct's fields
\* and the error joined so far.  The address of an unexported field cannot
\* be taken as an interface value (line 175).
unmarshalField(t, st, i) ==
    IF t.fields[i].type.kind = "Struct"
    THEN IF ~t.fields[i].exported
         THEN st
         ELSE recursed(t.fields[i], st, i,
                       unmarshalFields(t.fields[i].type,
                                       [envs |-> st.envs,
                                        fields |-> st.fields[i].fields,
                                        err |-> NoError],
                                       1))
    ELSE tagged(t.fields[i], st, i)

\* The loop, were it to stop at the first error.
unmarshalFieldsFailFast(t, st, i) ==
    IF i > Len(t.fields) \/ st.err # NoError
    THEN st
    ELSE unmarshalFields(t, unmarshalField(t, st, i), i + 1)

\* The loop of lines 172-218 from field i on.
unmarshalFields(t, st, i) ==
    IF i > Len(t.fields)
    THEN st
    ELSE unmarshalFields(t, unmarshalField(t, st, i), i + 1)

\* What unmarshal answers: the error, and the mapping and the pointed-to
\* value afterwards.
walked(st) ==
    [err |-> st.err, envs |-> st.envs, value |-> StructValue(st.fields)]

\* unmarshal(envs, v)
unmarshal(m, x) ==
    IF x.type.kind # "Ptr" \/ x.nil
    THEN [err |-> ErrInvalidValue, envs |-> m, value |-> x.value]
    ELSE IF x.type.elem.kind # "Struct"
    THEN [err |-> ErrInvalidValue, envs |-> m, value |-> x.value]
    ELSE walked(unmarshalFields(x.type.elem,
                                [envs |-> m, fields |-> x.value.fields, err |-> NoError],
                                1))

(***************************************************************************)
(* EnvironToMap (parser.go, lines 56-68) and parseEnvFile (lines 121-141). *)
(***************************************************************************)
RECURSIVE environLoop(_, _, _)
\* The loop, were an entry without `=` left out of the map.
environLoopSkipsMalformed(env, m, i) ==
    IF i > Len(env)
    THEN [err |-> NoError, m |-> m, nil |-> FALSE]
    ELSE LET parts == SplitN2(env[i], <<"=">>)
         IN  IF Len(parts) # 2
             THEN environLoop(env, m, i + 1)
             ELSE environLoop(env, (parts[1] :> parts[2]) @@ m, i + 1)

\* The loop of lines 58-65 from line i on; m is the map built so far.
environLoop(env, m, i) ==
    IF i > Len(env)
    THEN [err |-> NoError, m |-> m, nil |-> FALSE]
    ELSE LET parts == SplitN2(env[i], <<"=">>)
         IN  IF Len(parts) # 2
             THEN [err |-> ErrInvalidEnviron, m |-> << >>, nil |-> TRUE]
             ELSE environLoop(env, (parts[1] :> parts[2]) @@ m, i + 1)

\* EnvironToMap(env): the error and the map, which is the nil map on error.
EnvironToMap(env) ==
    environLoop(env, << >>, 1)

\* The loop of lines 125-138 from line i on.
RECURSIVE parseEnvLines(_, _, _)
parseEnvLines(lines, res, i) ==
    IF i > Len(lines)
    THEN res
    ELSE LET line == TrimSpace(TrimRight(lines[i], {"\r"}))
         IN  IF line = << >>
             THEN parseEnvLines(lines, res, i + 1)
             ELSE IF HasPrefix(line, <<"#">>)
             THEN parseEnvLines(lines, res, i + 1)
             ELSE parseEnvLines(lines, Append(res, line), i + 1)

parseEnvFile(content) ==
    parseEnvLines(Split(content, <<"\n">>), << >>, 1)

(***************************************************************************)
(* The validator slot and the entry points (parser.go, lines 32-45 and     *)
(* 70-156).  A validator is known by what its Struct method returns.       *)
(***************************************************************************)
NilValidator ==
    [nil |-> TRUE, returns |-> NoError]

\* The zero sync.RWMutex: the writers' mutex w free, no writer announced
\* (readerCount not negative), no reader holding the lock, none blocked.
Unlocked ==
    [w |-> 0, announced |-> FALSE, active |-> {}, blocked |-> {}]

ValidationFailed ==
    [e |-> "validation failed"]

Validators ==
    {[nil |-> FALSE, returns |-> NoError], [nil |-> FALSE, returns |-> ValidationFailed]}

NotReturned ==
    [e |-> "the call has not returned"]

NoCall ==
    [op |-> "none", environ |-> << >>, fileEnvs |-> << >>, lines |-> << >>,
     reached |-> FALSE, envs |-> << >>]

NoTarget ==
    [type |-> [kind |-> "Invalid"], nil |-> TRUE, value |-> NilValue]

\* SetValidator(x), lines 35-39
SetValidator(x) ==
    /\ validator' = x
    /\ UNCHANGED <<Separator, pc, target, arg, envs, err, val, structCalls, result, fn,
                 validatorMu, threads, stored>>

\* The return of unmarshal, were its error not to end the call.
decodedValidatesAlways(x, r) ==
    /\ envs' = r.envs
    /\ err' = r.err
    /\ target' = [x EXCEPT !.value = r.value]
    /\ result' = NotReturned
    /\ pc' = "getValidator"

\* Lines 147-149: r is what unmarshal answered for the target x.
decoded(x, r) ==
    /\ envs' = r.envs
    /\ err' = r.err
    /\ target' = [x EXCEPT !.value = r.value]
    /\ IF r.err # NoError
       THEN result' = r.err /\ pc' = "returned"
       ELSE result' = NotReturned /\ pc' = "getValidator"

\* Unmarshal(m, x) up to the return of unmarshal, lines 146-149
Unmarshal(m, x) ==
    /\ pc = "idle"
    /\ arg' = [NoCall EXCEPT !.op = "Unmarshal", !.reached = TRUE, !.envs = m]
    /\ decoded(x, unmarshal(m, x))
    /\ UNCHANGED <<Separator, validator, val, structCalls, fn,
                 validatorMu, threads, stored>>

\* getValidator and the test of its answer, lines 41-45 and 151
GetValidator ==
    /\ pc = "getValidator"
    /\ val' = validator
    /\ IF validator.nil
       THEN result' = NoError /\ pc' = "returned"
       ELSE result' = NotReturned /\ pc' = "validate"
    /\ UNCHANGED <<Separator, validator, target, arg, envs, err, structCalls, fn,
                 validatorMu, threads, stored>>

\* return val.Struct(v), line 152
Struct ==
    /\ pc = "validate"
    /\ structCalls' = Append(structCalls, target.value)
    /\ result' = val.returns
    /\ pc' = "returned"
    /\ UNCHANGED <<Separator, validator, target, arg, envs, err, val, fn,
                 validatorMu, threads, stored>>

\* The caller takes the result; the next call starts from fresh arguments.
Return ==
    /\ pc = "returned"
    /\ pc' = "idle"
    /\ target' = NoTarget
    /\ arg' = NoCall
    /\ envs' = << >>
    /\ err' = NotReturned
    /\ val' = NilValidator
    /\ structCalls' = << >>
    /\ result' = NotReturned
    /\ UNCHANGED <<Separator, validator, fn,
                 validatorMu, threads, stored>>

\* The call returns err before Unmarshal is reached.
failed(x, e) ==
    /\ envs' = << >>
    /\ target' = x
    /\ err' = e
    /\ result' = e
    /\ pc' = "returned"

\* Lines 73-78, 94-99 and 113-118: c is what EnvironToMap answered.
converted(op, environ, fileEnvs, lines, x, c) ==
    IF c.err # NoError
    THEN /\ arg' = [op |-> op, environ |-> environ, fileEnvs |-> fileEnvs, lines |-> lines,
                    reached |-> FALSE, envs |-> << >>]
         /\ failed(x, c.err)
    ELSE /\ arg' = [op |-> op, environ |-> environ, fileEnvs |-> fileEnvs, lines |-> lines,
                    reached |-> TRUE, envs |-> c.m]
         /\ decoded(x, unmarshal(c.m, x))

\* UnmarshalFromEnv(x), lines 72-79, with os.Environ() answering environ
UnmarshalFromEnv(environ, x) ==
    /\ pc = "idle"
    /\ converted("UnmarshalFromEnv", environ, << >>, environ, x, EnvironToMap(environ))
    /\ UNCHANGED <<Separator, validator, val, structCalls, fn,
                 validatorMu, threads, stored>>

\* What os.ReadFile answers: the content of the file, or an error.
ErrNotExist ==
    [e |-> "no such file or directory"]

NoFile ==
    [err |-> ErrNotExist, data |-> << >>]

FileOf(content) ==
    [err |-> NoError, data |-> content]

\* The batch, were the file's entries put before the environment's.
appendedFileFirst(environ, fileEnvs) ==
    fileEnvs \o environ

\* fullEnvs := append(os.Environ(), fileEnvs...), line 92
appended(environ, fileEnvs) ==
    environ \o fileEnvs

\* UnmarshalFromFile(path, x), lines 85-100, with os.ReadFile answering
\* file and os.Environ() answering environ
UnmarshalFromFile(file, environ, x) ==
    /\ pc = "idle"
    /\ IF file.err # NoError
       THEN /\ arg' = [NoCall EXCEPT !.op = "ReadFile"]
            /\ failed(x, file.err)
       ELSE converted("UnmarshalFromFile", environ, parseEnvFile(file.data),
                      appended(environ, parseEnvFile(file.data)), x,
                      EnvironToMap(appended(environ, parseEnvFile(file.data))))
    /\ UNCHANGED <<Separator, validator, val, structCalls, fn,
                 validatorMu, threads, stored>>

\* UnmarshalFromFileOnly(path, x), lines 105-119
UnmarshalFromFileOnly(file, x) ==
    /\ pc = "idle"
    /\ IF file.err # NoError
       THEN /\ arg' = [NoCall EXCEPT !.op = "ReadFile"]
            /\ failed(x, file.err)
       ELSE converted("UnmarshalFromFileOnly", << >>, parseEnvFile(file.data),
                      parseEnvFile(file.data), x, EnvironToMap(parseEnvFile(file.data)))
    /\ UNCHANGED <<Separator, validator, val, structCalls, fn,
                 validatorMu, threads, stored>>

(***************************************************************************)
(* The inputs of the model: tags, record types, mappings, lines, files.    *)
(***************************************************************************)
MaxFields ==
    2

MaxLines ==
    2

KeyA ==
    <<"A">>

KeyB ==
    <<"B">>

required ==
    <<"r", "e", "q", "u", "i", "r", "e", "d">>

default ==
    <<"d", "e", "f", "a", "u", "l", "t">>

separator ==
    <<"s", "e", "p", "a", "r", "a", "t", "o", "r">>

\* A tag: the key, then the modifiers, each after a comma.
RECURSIVE Tag(_, _)
Tag(key, modifiers) ==
    IF modifiers = << >>
    THEN key
    ELSE Tag(key \o <<",">> \o Head(modifiers), Tail(modifiers))

\* name=value
Modifier(name, value) ==
    name \o <<"=">> \o value

\* The fields records are made of.  Ports has the separator `\,`, that is
\* the comma; Hosts has the empty separator, that is the package's.
Fields ==
    { Field("Host", TRUE, KeyA, TString),
      Field("Port", TRUE, Tag(KeyA, <<required>>), TInt),
      Field("Retries", TRUE, Tag(KeyB, <<Modifier(default, <<"1">>)>>), TInt),
      Field("Name", TRUE, Tag(KeyB, <<required, Modifier(default, <<"x">>)>>), TString),
      Field("port", FALSE, KeyA, TInt),
      Field("Ch", TRUE, KeyB, TChan),
      Field("Ports", TRUE, Tag(KeyA, <<Modifier(separator, <<"\\", ",">>)>>), TSlice(TInt)),
      Field("Hosts", TRUE, Tag(KeyA, <<Modifier(separator, << >>)>>), TSlice(TString)),
      Field("NoTag", TRUE, << >>, TString),
      Field("DB", TRUE, << >>,
            TStruct(<<Field("Host", TRUE, Tag(KeyB, <<required>>), TString)>>)),
      Field("db", FALSE, << >>,
            TStruct(<<Field("Host", TRUE, Tag(KeyB, <<required>>), TString)>>)),
      Field("Cfg", TRUE, Tag(KeyA, <<required>>),
            TStruct(<<Field("Host", TRUE, Tag(KeyB, <<required>>), TString)>>)) }

\* The sequences of 1 to n elements of S.
RECURSIVE SeqsUpTo(_, _)
SeqsUpTo(S, n) ==
    IF n = 0
    THEN {}
    ELSE LET shorter == SeqsUpTo(S, n - 1)
         IN  {<<x>> : x \in S} \cup shorter \cup {Append(q, x) : q \in shorter, x \in S}

\* A pointer to a zero-valued record of the struct type t.
PointerTo(t) ==
    [type |-> TPtr(t), nil |-> FALSE, value |-> ZeroValue(t)]

Records ==
    {PointerTo(TStruct(fields)) : fields \in SeqsUpTo(Fields, MaxFields)}

\* What is no non-nil pointer to a struct: a string, the nil interface, a
\* nil pointer to a struct, a pointer to a string, a struct by value.
InvalidTargets ==
    { [type |-> TString, nil |-> FALSE, value |-> ZeroValue(TString)],
      NoTarget,
      [type |-> TPtr(TStruct(<<Field("Host", TRUE, KeyA, TString)>>)), nil |-> TRUE,
       value |-> NilValue],
      [type |-> TPtr(TString), nil |-> FALSE, value |-> ZeroValue(TString)],
      [type |-> TStruct(<<Field("Host", TRUE, KeyA, TString)>>), nil |-> FALSE,
       value |-> ZeroValue(TStruct(<<Field("Host", TRUE, KeyA, TString)>>))] }

ValuesOfA ==
    {<< >>, <<"1">>, <<"1", ",", "2">>, <<"1", ",", "x">>, <<"1", ";", "2">>}

ValuesOfB ==
    {<< >>, <<"2">>}

\* The mappings with at most the keys A and B.
Mappings ==
    {<< >>}
        \cup {KeyA :> a : a \in ValuesOfA}
        \cup {KeyB :> b : b \in ValuesOfB}
        \cup {(KeyA :> a) @@ (KeyB :> b) : a \in ValuesOfA, b \in ValuesOfB}

\* Raw entries: well formed, with an empty value, with an empty key, with
\* a second `=`, and without `=`.
Lines ==
    { <<"A", "=", "1">>, <<"A", "=", "2">>, <<"B", "=", "y">>, <<"A", "=">>,
      <<"=", "1">>, <<"A", "=", "1", "=", "2">>, <<"A">> }

Environs ==
    {<< >>} \cup SeqsUpTo(Lines, MaxLines)

Files ==
    { NoFile,
      FileOf(<< >>),
      FileOf(<<"A", "=", "3">>),
      FileOf(<<"A", "=", "3", "\r", "\n", "B", "=", "y", "\n">>),
      FileOf(<<" ", "#", "c", "\n", "\n", " ", "A", "=", "3", " ">>),
      FileOf(<<"A", "=", "3", "\n", "A", "=", "4">>),
      FileOf(<<"A", "=", "3", "\n", "B">>) }

\* The targets of the calls that start from raw entries.
LineTargets ==
    { PointerTo(TStruct(<<Field("Host", TRUE, KeyA, TString),
                          Field("Name", TRUE, Tag(KeyB, <<required>>), TString)>>)),
      NoTarget }

Separators ==
    {<<";">>, <<"|">>}

(***************************************************************************)
(* The calls of one caller, with SetValidator called at any time.          *)
(***************************************************************************)
\* The package as loaded, no validator set, and no call under way.
Loaded ==
    /\ validatorMu = Unlocked
    /\ threads = << >>
    /\ stored = {}
    /\ validator = NilValidator
    /\ pc = "idle"
    /\ target = NoTarget
    /\ arg = NoCall
    /\ envs = << >>
    /\ err = NotReturned
    /\ val = NilValidator
    /\ structCalls = << >>
    /\ result = NotReturned

\* Separator is as line 18 sets it.
Init ==
    /\ Separator = <<";">>
    /\ Loaded
    /\ fn = NoCall

\* The caller's next call, with its arguments.
CallUnmarshal ==
    /\ pc = "idle"
    /\ \E m \in Mappings, x \in Records \cup InvalidTargets : Unmarshal(m, x)

CallUnmarshalFromEnv ==
    /\ pc = "idle"
    /\ \E environ \in Environs, x \in LineTargets : UnmarshalFromEnv(environ, x)

CallUnmarshalFromFile ==
    /\ pc = "idle"
    /\ \E file \in Files, environ \in Environs, x \in LineTargets :
            UnmarshalFromFile(file, environ, x)

CallUnmarshalFromFileOnly ==
    /\ pc = "idle"
    /\ \E file \in Files, x \in LineTargets : UnmarshalFromFileOnly(file, x)

Next ==
    \/ \E x \in Validators \cup {NilValidator} : SetValidator(x)
    \/ CallUnmarshal
    \/ CallUnmarshalFromEnv
    \/ CallUnmarshalFromFile
    \/ CallUnmarshalFromFileOnly
    \/ GetValidator
    \/ Struct
    \/ Return

Spec ==
    Init /\ [][Next]_vars

(***************************************************************************)
(* The walk, told field by field.                                          *)
(*                                                                         *)
(* A slot is a field the walk may act on: [path, field, inner], the path   *)
(* being the indices that lead to the field from the record, and inner the *)
(* number of slots of the record the field holds (0 for a field that is no *)
(* record).  A fate is what befalls a slot: it is populated with a value   *)
(* (and its key consumed), it fails with an error, or it is passed over.   *)
(***************************************************************************)
RECURSIVE Slots(_, _, _, _)
\* The slots of the fields i, i+1, ... of the struct type t, in declaration
\* order, each with its path in the record, its field, the count of the
\* slots of its record and its tag as parseTag reads it.  A record field contributes the slots of its record and then,
\* when tagged, its own; with all = FALSE the records held in unexported
\* fields are left out, as line 175 leaves them out.
Slots(t, path, i, all) ==
    IF i > Len(t.fields)
    THEN << >>
    ELSE LET f == t.fields[i]
             inner == Slots(f.type, Append(path, i), 1, all)
             here == IF f.type.kind # "Struct"
                     THEN <<[path |-> Append(path, i), field |-> f, inner |-> 0,
                             tf |-> parseTag(f.tag)]>>
                     ELSE IF ~all /\ ~f.exported
                     THEN << >>
                     ELSE inner \o (IF f.tag = << >>
                                    THEN << >>
                                    ELSE <<[path |-> Append(path, i), field |-> f,
                                            inner |-> Len(inner),
                                            tf |-> parseTag(f.tag)]>>)
         IN  here \o Slots(t, path, i + 1, all)

PassedOver ==
    [is |-> "passed over", err |-> NoError, value |-> NilValue, key |-> << >>]

Failed(e) ==
    [is |-> "failed", err |-> e, value |-> NilValue, key |-> << >>]

Populated(x, key) ==
    [is |-> "populated", err |-> NoError, value |-> x, key |-> key]

\* The fate of a slot when the mapping is m.
Fate(slot, m) ==
    LET f == slot.field
        tf == slot.tf
        text == IF tf.Key \in DOMAIN m THEN m[tf.Key] ELSE tf.Default
        r == set(f.type, ZeroValue(f.type), text, tf.Separator)
    IN  IF f.tag = << >>
        THEN PassedOver
        ELSE IF ~f.exported
        THEN Failed(NotExported(f.name))
        ELSE IF tf.Key \notin DOMAIN m /\ tf.Default = << >>
        THEN IF tf.Required THEN Failed(RequiredNotFound(tf.Key)) ELSE PassedOver
        ELSE IF r.err # NoError
        THEN Failed(r.err)
        ELSE Populated(r.f, tf.Key)

\* The fates of the slots k, k+1, ... when the mapping is m and done holds
\* the fates of the slots before k.  With skip = TRUE the own tag of a
\* record field is passed over when a slot of its record has failed, as
\* line 181 passes it over.
RECURSIVE Fates(_, _, _, _, _)
Fates(slots, k, m, done, skip) ==
    IF k > Len(slots)
    THEN done
    ELSE LET innerFailed ==
                 \E j \in (k - slots[k].inner)..(k - 1) : done[j].is = "failed"
             fate == IF skip /\ innerFailed THEN PassedOver ELSE Fate(slots[k], m)
         IN  Fates(slots, k + 1,
                   IF fate.is = "populated" THEN delete(m, fate.key) ELSE m,
                   Append(done, fate), skip)

\* The value at a path of a struct value.
RECURSIVE ValueAt(_, _)
ValueAt(x, path) ==
    IF path = << >>
    THEN x
    ELSE ValueAt(x.fields[Head(path)], Tail(path))

\* unmarshal has walked a record: the call reached Unmarshal with a non-nil
\* pointer to a struct.
Walked ==
    /\ pc # "idle"
    /\ arg.reached
    /\ target.type.kind = "Ptr"
    /\ ~target.nil
    /\ target.type.elem.kind = "Struct"

\* The errors of the failed fates, in order.
ErrorsOf(fates) ==
    LET failedOnes == SelectSeq(fates, LAMBDA ft : ft.is = "failed")
    IN  [k \in 1..Len(failedOnes) |-> failedOnes[k].err]

\* What the walk over the given slots with the given fates leaves: the
\* errors of the failed slots, joined in order; every populated slot holding
\* its coerced value and every other slot its zero value; and no error at
\* all exactly when no slot failed.
Accumulated(slots, fates) ==
    /\ Leaves(err) = ErrorsOf(fates)
    /\ \A k \in 1..Len(slots) :
          slots[k].field.type.kind # "Struct" =>
              ValueAt(target.value, slots[k].path) =
                  IF fates[k].is = "populated"
                  THEN fates[k].value
                  ELSE ZeroValue(slots[k].field.type)
    /\ (err = NoError) <=> (\A k \in 1..Len(fates) : fates[k].is # "failed")

\* C1, as amended: the walk acts on every field in declaration order, those
\* of nested records included, but for the records held in unexported fields,
\* which it does not enter, and the own tag of a record field whose record
\* failed, which it passes over.  It never stops at a failure: every failed
\* field's error is in the joined error, in order, every other resolvable
\* field is populated, and the error is nil exactly when no field failed.
C1_ErrorsAccumulated ==
    Walked =>
        LET slots == Slots(target.type.elem, << >>, 1, FALSE)
        IN  Accumulated(slots, Fates(slots, 1, arg.envs, << >>, TRUE))

\* C1, as stated: the same of every field of the record and of its nested
\* records, whatever holds them.
C1_EveryFieldVisited ==
    Walked =>
        LET slots == Slots(target.type.elem, << >>, 1, TRUE)
        IN  Accumulated(slots, Fates(slots, 1, arg.envs, << >>, FALSE))

\* C1: a first field has failed and the field declared after it is populated.
C1_Witness ==
    /\ Walked
    /\ Len(target.type.elem.fields) = 2
    /\ LET slots == Slots(target.type.elem, << >>, 1, FALSE)
           fates == Fates(slots, 1, arg.envs, << >>, TRUE)
       IN  /\ Len(fates) = 2
           /\ fates[1].is = "failed"
           /\ fates[2].is = "populated"
           /\ Leaves(err) = <<fates[1].err>>
           /\ target.value.fields[2] = fates[2].value

(***************************************************************************)
(* The walk seen from one slot: what was in the mapping when the walk      *)
(* reached it, and the error it added.                                     *)
(***************************************************************************)
\* The slots the walk has acted on and their fates.
WalkedSlots ==
    Slots(target.type.elem, << >>, 1, FALSE)

WalkedFates(slots) ==
    Fates(slots, 1, arg.envs, << >>, TRUE)

\* The keys the slots before k have consumed.
ConsumedBefore(fates, k) ==
    {fates[j].key : j \in {i \in 1..(k - 1) : fates[i].is = "populated"}}

\* The mapping when the walk reaches slot k.
MappingAt(fates, k) ==
    [key \in DOMAIN arg.envs \ ConsumedBefore(fates, k) |-> arg.envs[key]]

FailedIn(fates, from, to) ==
    Cardinality({j \in from..to : fates[j].is = "failed"})

\* The errors slot k has added to the joined error: what the joined error
\* holds beyond the errors of the slots before k and after k.
OwnErrors(fates, k) ==
    LET before == FailedIn(fates, 1, k - 1)
        after == FailedIn(fates, k + 1, Len(fates))
    IN  SubSeq(Leaves(err), before + 1, Len(Leaves(err)) - after)

\* An annotated, settable field that is no record.
Settable(slot) ==
    /\ slot.field.type.kind # "Struct"
    /\ slot.field.tag # << >>
    /\ slot.field.exported

\* Slot k has the outcome of coercing text into it: the value, or the
\* coercion's error with the field at its zero value.
CoercedFrom(slot, fates, k, text) ==
    LET r == set(slot.field.type, ZeroValue(slot.field.type), text, slot.tf.Separator)
    IN  IF r.err = NoError
        THEN /\ ValueAt(target.value, slot.path) = r.f
             /\ OwnErrors(fates, k) = << >>
        ELSE /\ ValueAt(target.value, slot.path) = ZeroValue(slot.field.type)
             /\ OwnErrors(fates, k) = <<r.err>>

\* Slot k has been resolved by the precedence of mapping, default and
\* required flag.
ResolvedByPrecedence(slots, fates, k) ==
    LET slot == slots[k]
        tf == slot.tf
        m == MappingAt(fates, k)
    IN  IF tf.Key \in DOMAIN m
        THEN CoercedFrom(slot, fates, k, m[tf.Key])
        ELSE IF tf.Default # << >>
        THEN CoercedFrom(slot, fates, k, tf.Default)
        ELSE IF tf.Required
        THEN /\ ValueAt(target.value, slot.path) = ZeroValue(slot.field.type)
             /\ OwnErrors(fates, k) = <<RequiredNotFound(tf.Key)>>
        ELSE /\ ValueAt(target.value, slot.path) = ZeroValue(slot.field.type)
             /\ OwnErrors(fates, k) = << >>

\* C2: an annotated, settable field takes the mapping's value when its key
\* is in the mapping (also when a default is declared, also when the value
\* is empty); otherwise its default when that is not empty, required or not,
\* with no required-field error; otherwise, when required, it stays unset
\* and the error is "required field not found" with its key; otherwise it
\* stays at its zero value with no error.
C2_ValuePrecedence ==
    Walked =>
        LET slots == WalkedSlots
            fates == WalkedFates(slots)
        IN  \A k \in 1..Len(slots) :
                Settable(slots[k]) => ResolvedByPrecedence(slots, fates, k)

\* C2: a required text field with the default x whose key holds the empty
\* value has taken the empty value, not the default, and no error.
C2_Witness ==
    /\ Walked
    /\ Len(WalkedSlots) >= 1
    /\ Settable(WalkedSlots[1])
    /\ WalkedSlots[1].field.type.kind = "String"
    /\ WalkedSlots[1].tf.Default = <<"x">>
    /\ WalkedSlots[1].tf.Required
    /\ KeyB \in DOMAIN arg.envs
    /\ arg.envs[KeyB] = << >>
    /\ ValueAt(target.value, WalkedSlots[1].path) = StringValue(<< >>)
    /\ err = NoError

\* The call has reached Unmarshal, which has returned from unmarshal.
Decoded ==
    pc # "idle" /\ arg.reached

\* Some annotated, settable field that the walk acts on names the key and
\* takes the text.
Coercible(slots, key, text) ==
    \E k \in 1..Len(slots) :
        /\ Settable(slots[k])
        /\ slots[k].tf.Key = key
        /\ set(slots[k].field.type, ZeroValue(slots[k].field.type), text,
               slots[k].tf.Separator).err = NoError

\* The keys of the mapping passed in that a walk over the slots consumes.
ConsumedKeys(slots) ==
    {key \in DOMAIN arg.envs : Coercible(slots, key, arg.envs[key])}

\* C3: after unmarshal has returned, the mapping is the mapping passed in
\* less exactly the keys that were present and that a field was coerced
\* from: keys whose coercion failed, keys that no field names and the keys
\* of fields resolved from their default are still there, and no value has
\* been added or changed.
C3_ConsumedKeysRemoved ==
    Decoded =>
        /\ DOMAIN envs = DOMAIN arg.envs \ (IF Walked THEN ConsumedKeys(WalkedSlots) ELSE {})
        /\ \A key \in DOMAIN envs : envs[key] = arg.envs[key]

\* C3: of a mapping holding both keys, the one a field was coerced from is
\* gone and the one whose coercion failed is still there with its value.
C3_Witness ==
    /\ Walked
    /\ DOMAIN arg.envs = {KeyA, KeyB}
    /\ DOMAIN envs = {KeyB}
    /\ envs[KeyB] = arg.envs[KeyB]
    /\ Len(Leaves(err)) = 1
    /\ Leaves(err)[1].e = "invalid syntax"
    /\ \E k \in 1..Len(WalkedSlots) :
          /\ Settable(WalkedSlots[k])
          /\ WalkedSlots[k].tf.Key = KeyB

\* C4: a call that has reached Unmarshal invokes the validator exactly
\* once, with the populated record, if and only if unmarshal returned no
\* error and getValidator then answered a validator, and the call then
\* returns what the validator returned; after an error of unmarshal the
\* validator is not invoked and the call returns that error; the walk itself,
\* nested records included, invokes nothing.
C4_ValidatedOnceAfterCleanDecode ==
    /\ pc # "returned" => structCalls = << >>
    /\ (pc = "returned" /\ arg.reached) =>
          IF err = NoError /\ ~val.nil
          THEN structCalls = <<target.value>> /\ result = val.returns
          ELSE structCalls = << >> /\ result = err
    /\ (pc = "returned" /\ ~arg.reached) => structCalls = << >>

\* C4: a record with a nested record has been decoded without error, and
\* the validator, invoked once with the populated record, has failed the
\* call.
C4_Witness ==
    /\ pc = "returned"
    /\ Walked
    /\ err = NoError
    /\ structCalls = <<target.value>>
    /\ result = ValidationFailed
    /\ \E i \in 1..Len(target.type.elem.fields) :
          /\ target.type.elem.fields[i].type.kind = "Struct"
          /\ target.value.fields[i] # ZeroValue(target.type.elem.fields[i].type)

\* An entry of the batch has no `=`.
Range(s) ==
    {s[i] : i \in 1..Len(s)}

Malformed(lines) ==
    \E i \in 1..Len(lines) : "=" \notin Range(lines[i])

\* The target is a non-nil pointer to a struct.
ValidTarget(x) ==
    /\ x.type.kind = "Ptr"
    /\ ~x.nil
    /\ x.type.elem.kind = "Struct"

\* C5: a batch of raw entries with an entry without `=`, at whatever
\* position, makes EnvironToMap return ErrInvalidEnviron and the nil map,
\* and a target that is no non-nil pointer to a struct makes Unmarshal
\* return ErrInvalidValue itself; either ends the call with that error,
\* with the target as it was passed, the mapping as it was passed and the
\* validator not invoked.
C5_FatalErrors ==
    /\ (pc # "idle" /\ arg.op # "Unmarshal" /\ Malformed(arg.lines)) =>
          /\ pc = "returned"
          /\ ~arg.reached
          /\ EnvironToMap(arg.lines) = [err |-> ErrInvalidEnviron, m |-> << >>, nil |-> TRUE]
          /\ err = ErrInvalidEnviron
          /\ result = ErrInvalidEnviron
          /\ target \in LineTargets
          /\ envs = << >>
          /\ structCalls = << >>
    /\ (Decoded /\ ~ValidTarget(target)) =>
          /\ pc = "returned"
          /\ err = ErrInvalidValue
          /\ result = ErrInvalidValue
          /\ target \in InvalidTargets
          /\ envs = arg.envs
          /\ structCalls = << >>

\* C5: the environment's entry is well formed and the file's last line has
\* no `=`: the call has returned ErrInvalidEnviron with a validator
\* registered.
C5_Witness ==
    /\ pc = "returned"
    /\ arg.op = "UnmarshalFromFile"
    /\ Len(arg.lines) = 3
    /\ ~Malformed(SubSeq(arg.lines, 1, 2))
    /\ Malformed(arg.lines)
    /\ ~validator.nil
    /\ result = ErrInvalidEnviron

\* The text before and the text after the first `=` of a well-formed entry.
FirstEquals(line) ==
    CHOOSE i \in 1..Len(line) : line[i] = "=" /\ \A j \in 1..(i - 1) : line[j] # "="

KeyOf(line) ==
    SubSeq(line, 1, FirstEquals(line) - 1)

ValueOf(line) ==
    SubSeq(line, FirstEquals(line) + 1, Len(line))

KeysOf(lines) ==
    {KeyOf(lines[i]) : i \in 1..Len(lines)}

\* The value of the last entry of the batch that carries the key.
LastValueOf(lines, key) ==
    LET carrying == {i \in 1..Len(lines) : KeyOf(lines[i]) = key}
    IN  ValueOf(lines[CHOOSE i \in carrying : \A j \in carrying : j <= i])

\* C6: of a batch of well-formed entries EnvironToMap returns the mapping
\* whose keys are the texts before each entry's first `=`, as many as there
\* are distinct keys, each with the text after the first `=` of the last
\* entry that carries it; UnmarshalFromFile puts the file's entries after
\* the environment's, so a key in both has the file's value and the field
\* of that key is decoded from it.
C6_LastEntryWins ==
    (pc # "idle" /\ arg.op \notin {"Unmarshal", "ReadFile"} /\ ~Malformed(arg.lines)) =>
        /\ arg.reached
        /\ DOMAIN arg.envs = KeysOf(arg.lines)
        /\ Cardinality(DOMAIN arg.envs) = Cardinality(KeysOf(arg.lines))
        /\ \A key \in KeysOf(arg.lines) : arg.envs[key] = LastValueOf(arg.lines, key)
        /\ \A key \in KeysOf(arg.environ) \cap KeysOf(arg.fileEnvs) :
              /\ arg.envs[key] = LastValueOf(arg.fileEnvs, key)
              /\ (ValidTarget(target) /\ key = KeyA) =>
                    target.value.fields[1] = StringValue(LastValueOf(arg.fileEnvs, key))

\* C6: the environment has A=1 and the file has A=3 and then A=4; the
\* mapping has the single key A and the field of key A holds 4.
C6_Witness ==
    /\ pc # "idle"
    /\ arg.op = "UnmarshalFromFile"
    /\ arg.environ = << <<"A", "=", "1">> >>
    /\ arg.fileEnvs = << <<"A", "=", "3">>, <<"A", "=", "4">> >>
    /\ DOMAIN arg.envs = {KeyA}
    /\ ValidTarget(target)
    /\ target.value.fields[1] = StringValue(<<"4">>)

(***************************************************************************)
(* set on its own: one text coerced into one field of a container type.    *)
(***************************************************************************)
MaxLen ==
    5

Alphabet ==
    {"a", "1", ":", ";"}

Texts ==
    {<< >>} \cup SeqsUpTo(Alphabet, MaxLen)

\* Maps and slices of texts and integers, containers of containers, a map
\* whose keys are no texts, and containers of channels.
ContainerTypes ==
    { TMap(TString, TInt), TMap(TString, TString), TSlice(TInt), TSlice(TString),
      TSlice(TSlice(TInt)), TSlice(TSlice(TString)), TMap(TString, TMap(TString, TInt)),
      TSlice(TMap(TString, TInt)), TMap(TString, TSlice(TInt)),
      TMap(TInt, TString), TSlice(TChan), TMap(TString, TChan) }

\* The separator of the field's tag: none, or the semicolon.
TagSeparators ==
    {<< >>, <<";">>}

\* A call of set on the zero value of a field of type t.
SetCall(t, value, sliceSeparator) ==
    [op |-> "set", type |-> t, f |-> ZeroValue(t), value |-> value,
     sliceSeparator |-> sliceSeparator, applied |-> FALSE,
     out |-> [err |-> NotReturned, f |-> ZeroValue(t)]]

\* Separator is as line 18 sets it or as the program has set it since.
InitSet ==
    /\ Separator \in Separators
    /\ Loaded
    /\ fn \in {SetCall(t, value, sep) :
                  t \in ContainerTypes, value \in Texts, sep \in TagSeparators}

\* set(t, f, value, sliceSeparator), lines 258-357
SetApplied ==
    /\ fn.op = "set"
    /\ ~fn.applied
    /\ fn' = [fn EXCEPT !.applied = TRUE,
                        !.out = set(fn.type, fn.f, fn.value, fn.sliceSeparator)]
    /\ UNCHANGED <<Separator, validator, pc, target, arg, envs, err, val, structCalls, result,
                 validatorMu, threads, stored>>

NextSet ==
    SetApplied

SpecSet ==
    InitSet /\ [][NextSet]_vars

\* The parts of a text cut at every occurrence of the character c: part j
\* holds, in order, the characters other than c that have j - 1
\* occurrences of c before them.
CountBefore(text, c, i) ==
    Cardinality({p \in 1..(i - 1) : text[p] = c})

Part(text, c, j) ==
    LET at == SelectSeq([i \in 1..Len(text) |-> i],
                        LAMBDA i : text[i] # c /\ CountBefore(text, c, i) = j - 1)
    IN  [k \in 1..Len(at) |-> text[at[k]]]

Parts(text, c) ==
    [j \in 1..(CountBefore(text, c, Len(text) + 1) + 1) |-> Part(text, c, j)]

\* The separator a call of set resolves: the field's, or the package's
\* when the field's is empty.
ResolvedSeparator ==
    IF fn.sliceSeparator = << >> THEN Separator ELSE fn.sliceSeparator

\* The text before and the text after the first `:` of a pair.
FirstColon(pair) ==
    CHOOSE i \in 1..Len(pair) : pair[i] = ":" /\ \A j \in 1..(i - 1) : pair[j] # ":"

KeyPart(pair) ==
    SubSeq(pair, 1, FirstColon(pair) - 1)

ValuePart(pair) ==
    SubSeq(pair, FirstColon(pair) + 1, Len(pair))

\* The value part of a pair coerced as the map's element type.
CoercedPair(pair) ==
    set(fn.type.elem, ZeroValue(fn.type.elem), ValuePart(pair), ResolvedSeparator)

\* The error of a pair: it has no `:`, or its value part is not coerced.
PairError(pair) ==
    IF ":" \notin Range(pair) THEN InvalidMapEntry(pair) ELSE CoercedPair(pair).err

First(S) ==
    CHOOSE i \in S : \A j \in S : i <= j

Last(S) ==
    CHOOSE i \in S : \A j \in S : j <= i

\* set has coerced the text into a map with text keys by the rule of pairs:
\* the empty text gives an empty map that is not the nil map; otherwise the
\* first pair in error fails the field, with its error and the field as it
\* was; otherwise the map has the key parts as keys, each with the coerced
\* value part of the last pair with that key.
MapCoerced ==
    LET pairs == Parts(fn.value, ResolvedSeparator[1])
        bad == {i \in 1..Len(pairs) : PairError(pairs[i]) # NoError}
    IN  IF fn.value = << >>
        THEN /\ fn.out = [err |-> NoError, f |-> MapValue(<< >>)]
             /\ fn.out.f # ZeroValue(fn.type)
        ELSE IF bad # {}
        THEN fn.out = [err |-> PairError(pairs[First(bad)]), f |-> fn.f]
        ELSE /\ fn.out.err = NoError
             /\ fn.out.f.k = "map"
             /\ DOMAIN fn.out.f.m = {KeyPart(pairs[i]) : i \in 1..Len(pairs)}
             /\ \A i \in 1..Len(pairs) :
                   fn.out.f.m[KeyPart(pairs[i])] =
                       CoercedPair(pairs[Last({j \in 1..Len(pairs) :
                                                 KeyPart(pairs[j]) = KeyPart(pairs[i])})]).f

\* set has been applied to a map with text keys.
MapSet ==
    /\ fn.op = "set"
    /\ fn.applied
    /\ fn.type.kind = "Map"
    /\ fn.type.key.kind = "String"

\* C7: a text coerced into a map of text keys to texts or integers: the
\* empty text gives an empty map that is not nil; otherwise the text is cut
\* at the resolved separator, each pair at its first `:`, a pair without `:`
\* (the empty pair of a leading, trailing or doubled separator too) fails
\* the field with the error that names the pair, the value part is coerced
\* as the element type, and a repeated key keeps the value of its last pair.
C7_MapCoercion ==
    (MapSet /\ fn.type.elem.kind \in {"String", "Int"}) => MapCoerced

\* C7: the text `:a;:1` coerced into a map of texts to texts with the
\* separator `;` gives the map with the one key, the empty text, and the
\* value of its last pair.
C7_Witness ==
    /\ MapSet
    /\ fn.type.elem.kind = "String"
    /\ fn.value = <<":", "a", ";", ":", "1">>
    /\ ResolvedSeparator = <<";">>
    /\ fn.out = [err |-> NoError, f |-> MapValue(<< >> :> StringValue(<<"1">>))]

\* Part i of the text coerced as the slice's element type.
CoercedPart(parts, i) ==
    set(fn.type.elem, ZeroValue(fn.type.elem), parts[i], ResolvedSeparator)

\* set has coerced the text into a slice by the rule of parts: the first
\* part that is not coerced as the element type fails the field, with its
\* error and the field as it was; otherwise the slice holds the coerced
\* parts, one for one, in the order of the text.
SliceCoerced ==
    LET parts == Parts(fn.value, ResolvedSeparator[1])
        bad == {i \in 1..Len(parts) : CoercedPart(parts, i).err # NoError}
    IN  IF bad # {}
        THEN fn.out = [err |-> CoercedPart(parts, First(bad)).err, f |-> fn.f]
        ELSE fn.out = [err |-> NoError,
                       f |-> SliceValue([i \in 1..Len(parts) |-> CoercedPart(parts, i).f])]

\* set has been applied to a slice or a map whose elements are slices or
\* maps.
NestedSet ==
    /\ fn.op = "set"
    /\ fn.applied
    /\ fn.type.kind \in {"Slice", "Map"}
    /\ fn.type.elem.kind \in {"Slice", "Map"}

\* Every type a coercion into t can come to has a rule: texts, integers,
\* slices of such and maps with text keys of such.
RECURSIVE Supported(_)
Supported(t) ==
    CASE t.kind \in {"String", "Int"} -> TRUE
      [] t.kind = "Slice" -> Supported(t.elem)
      [] t.kind = "Map" -> t.key.kind = "String" /\ Supported(t.elem)
      [] OTHER -> FALSE

\* C10, as stated: a container nested inside a slice or a map has no
\* coercion rule, so set returns the unsupported-type error and leaves the
\* field unset.
C10_NestedContainersUnsupported ==
    NestedSet => fn.out = [err |-> ErrUnsupportedType, f |-> fn.f]

\* C10, as amended: a container nested inside a slice or a map is coerced
\* by the rules of slices and maps themselves, each part or value part
\* being coerced as the element type with the same separator; the
\* unsupported-type error comes only of a type without a rule (a channel
\* element, a map whose keys are no texts), and a failed coercion leaves the
\* field unset.
C10_NestedContainersCoerced ==
    NestedSet =>
        /\ fn.type.kind = "Slice" => SliceCoerced
        /\ (fn.type.kind = "Map" /\ fn.type.key.kind = "String") => MapCoerced
        /\ (fn.type.kind = "Map" /\ fn.type.key.kind # "String") =>
              fn.out = [err |-> ErrUnsupportedType, f |-> fn.f]
        /\ Supported(fn.type) => fn.out.err # ErrUnsupportedType
        /\ fn.out.err # NoError => fn.out.f = fn.f

\* C10: the text `1;a1` coerced into a slice of slices of texts with the
\* separator `;` gives the two slices of one text each.
C10_Witness ==
    /\ NestedSet
    /\ fn.type = TSlice(TSlice(TString))
    /\ fn.value = <<"1", ";", "a", "1">>
    /\ ResolvedSeparator = <<";">>
    /\ fn.out = [err |-> NoError,
                 f |-> SliceValue(<<SliceValue(<<StringValue(<<"1">>)>>),
                                    SliceValue(<<StringValue(<<"a", "1">>)>>)>>)]

(***************************************************************************)
(* Slices in the walk.                                                     *)
(***************************************************************************)
\* The separator of a slot: the one its tag declares, or the package's when
\* the tag declares none or the empty one.
SeparatorOf(slot) ==
    IF slot.tf.Separator = << >> THEN Separator ELSE slot.tf.Separator

\* Part i of a text as an element of the slot's slice: the part itself for
\* a slice of texts, the part coerced otherwise.
ElementOf(slot, parts, i) ==
    IF slot.field.type.elem.kind = "String"
    THEN [err |-> NoError, f |-> StringValue(parts[i])]
    ELSE set(slot.field.type.elem, ZeroValue(slot.field.type.elem), parts[i],
             SeparatorOf(slot))

\* No other slot names the key of slot k.
OnlySlotOfItsKey(slots, k) ==
    \A j \in 1..Len(slots) :
        (j # k /\ slots[j].field.tag # << >>) => slots[j].tf.Key # slots[k].tf.Key

\* The slice of slot k has been built from the parts of the text, or, a
\* part failing, only the slot has failed.
SliceBuilt(slots, fates, k, text) ==
    LET slot == slots[k]
        key == slot.tf.Key
        parts == Parts(text, SeparatorOf(slot)[1])
        elems == [i \in 1..Len(parts) |-> ElementOf(slot, parts, i)]
        bad == {i \in 1..Len(parts) : elems[i].err # NoError}
    IN  IF bad = {}
        THEN /\ ValueAt(target.value, slot.path) =
                    SliceValue([i \in 1..Len(parts) |-> elems[i].f])
             /\ OwnErrors(fates, k) = << >>
             /\ key \notin DOMAIN envs
        ELSE /\ ValueAt(target.value, slot.path) = ZeroValue(slot.field.type)
             /\ OwnErrors(fates, k) = <<elems[First(bad)].err>>
             /\ (key \in DOMAIN arg.envs /\ OnlySlotOfItsKey(slots, k)) =>
                   (key \in DOMAIN envs /\ envs[key] = arg.envs[key])
             /\ \A j \in (k + 1)..Len(slots) :
                   Settable(slots[j]) => ResolvedByPrecedence(slots, fates, j)

\* The slice of slot k has been built from the text the walk resolves for
\* it: the mapping's value, or else the default when that is not empty.
SliceResolved(slots, fates, k) ==
    LET tf == slots[k].tf
        m == MappingAt(fates, k)
    IN  IF tf.Key \in DOMAIN m
        THEN SliceBuilt(slots, fates, k, m[tf.Key])
        ELSE tf.Default # << >> => SliceBuilt(slots, fates, k, tf.Default)

\* C8: a text coerced into a slice is cut at the separator of the field's
\* tag, or at the package's when that is empty, and the slice holds one
\* element per part in the order of the text, the parts themselves for a
\* slice of texts and the coerced parts otherwise; when a part is not
\* coerced only this field fails: it keeps the value it had, its key stays
\* in the mapping, and the walk goes on with the next field.
C8_SliceCoercion ==
    Walked =>
        LET slots == WalkedSlots
            fates == WalkedFates(slots)
        IN  \A k \in 1..Len(slots) :
                (Settable(slots[k]) /\ slots[k].field.type.kind = "Slice") =>
                    SliceResolved(slots, fates, k)

\* C8: the slice of integers with the separator `,` has failed on the text
\* `1,x` with the error of the part x and is unset, its key A is still in
\* the mapping, and the next field has been populated from the key B.
C8_Witness ==
    /\ Walked
    /\ Len(WalkedSlots) = 2
    /\ WalkedSlots[1].field.type = TSlice(TInt)
    /\ arg.envs = (KeyA :> <<"1", ",", "x">>) @@ (KeyB :> <<"2">>)
    /\ target.value.fields[1] = ZeroValue(TSlice(TInt))
    /\ Leaves(err) = <<NumError("Atoi", <<"x">>)>>
    /\ envs = (KeyA :> <<"1", ",", "x">>)
    /\ target.value.fields[2] \in {IntValue(2), StringValue(<<"2">>)}

(***************************************************************************)
(* parseTag on its own: one tag parsed into its descriptor.                *)
(***************************************************************************)
MaxModifiers ==
    2

\* A modifier as written in a tag, with what it is: the name it means
\* whatever its case, whether it has `=value`, and the value with `\,`
\* read as the comma.
Written(text, means, hasValue, value) ==
    [text |-> text, means |-> means, hasValue |-> hasValue, value |-> value]

ModifiersWritten ==
    { Written(required, "required", FALSE, << >>),
      Written(<<"R", "E", "Q", "U", "I", "R", "E", "D">>, "required", FALSE, << >>),
      Written(Modifier(required, <<"f", "a", "l", "s", "e">>), "required", TRUE,
              <<"f", "a", "l", "s", "e">>),
      Written(default, "default", FALSE, << >>),
      Written(Modifier(default, <<"x">>), "default", TRUE, <<"x">>),
      Written(Modifier(default, << >>), "default", TRUE, << >>),
      Written(Modifier(default, <<"a", "\\", ",", "b">>), "default", TRUE, <<"a", ",", "b">>),
      Written(Modifier(<<"D", "e", "f", "a", "u", "l", "t">>, <<"y">>), "default", TRUE, <<"y">>),
      Written(separator, "separator", FALSE, << >>),
      Written(Modifier(separator, <<"|">>), "separator", TRUE, <<"|">>),
      Written(Modifier(separator, <<"\\", ",">>), "separator", TRUE, <<",">>),
      Written(<<"o", "p", "t">>, "other", FALSE, << >>),
      Written(Modifier(<<"o", "p", "t">>, <<"1">>), "other", TRUE, <<"1">>),
      Written(<< >>, "other", FALSE, << >>) }

TagKeys ==
    {KeyA, << >>}

\* A call of parseTag on the tag written from the key and the modifiers.
TagCall(key, modifiers) ==
    [op |-> "parseTag", key |-> key, modifiers |-> modifiers,
     tag |-> Tag(key, [i \in 1..Len(modifiers) |-> modifiers[i].text]),
     applied |-> FALSE,
     out |-> [Key |-> << >>, Default |-> << >>, Required |-> FALSE, Separator |-> << >>]]

InitTag ==
    /\ Separator \in Separators
    /\ Loaded
    /\ fn \in {TagCall(key, modifiers) :
                  key \in TagKeys,
                  modifiers \in {<< >>} \cup SeqsUpTo(ModifiersWritten, MaxModifiers)}

\* parseTag(tag), lines 223-256
TagParsed ==
    /\ fn.op = "parseTag"
    /\ ~fn.applied
    /\ fn' = [fn EXCEPT !.applied = TRUE, !.out = parseTag(fn.tag)]
    /\ UNCHANGED <<Separator, validator, pc, target, arg, envs, err, val, structCalls, result,
                 validatorMu, threads, stored>>

NextTag ==
    TagParsed

SpecTag ==
    InitTag /\ [][NextTag]_vars

\* The value of the last modifier of the given name that has a value, or
\* none when there is no such modifier.
LastGiven(modifiers, means, none) ==
    LET given == {i \in 1..Len(modifiers) :
                     modifiers[i].means = means /\ modifiers[i].hasValue}
    IN  IF given = {} THEN none ELSE modifiers[Last(given)].value

\* C9: parseTag answers a descriptor for every tag; its key is the first
\* comma-delimited token; a modifier that is unrecognised or has the wrong
\* arity has no effect: the required flag is set by a bare `required` only
\* (not by `required=false`), the default and the separator by `default`
\* and `separator` with a value only; the names are matched whatever their
\* case.
C9_WrongArityIgnored ==
    (fn.op = "parseTag" /\ fn.applied) =>
        fn.out = [Key |-> fn.key,
                  Required |-> \E i \in 1..Len(fn.modifiers) :
                                  /\ fn.modifiers[i].means = "required"
                                  /\ ~fn.modifiers[i].hasValue,
                  Default |-> LastGiven(fn.modifiers, "default", << >>),
                  Separator |-> LastGiven(fn.modifiers, "separator", Separator)]

(***************************************************************************)
(* Goroutines calling SetValidator and Unmarshal concurrently (parser.go,  *)
(* lines 27-45 and 146-156).  validatorMu is a sync.RWMutex: Lock takes    *)
(* the writers' mutex, announces the writer, which keeps new readers out,  *)
(* and waits for the readers that hold the lock; Unlock lets in the        *)
(* readers blocked meanwhile and frees the writers' mutex.  The slot is an *)
(* interface value of two words, stored one word after the other.          *)
(***************************************************************************)
MaxThreads ==
    2

Threads ==
    1..MaxThreads

\* A goroutine between two calls.
Idle ==
    [pc |-> "idle", op |-> "none", x |-> NilValidator, err |-> NotReturned,
     val |-> NilValidator, reads |-> 0]

\* What the goroutines store: a validator whose Struct fails, and nil.
StoredValidators ==
    {NilValidator, [nil |-> FALSE, returns |-> ValidationFailed]}

\* What the goroutines decode, each into its own record from its own
\* mapping: a required integer that is there, and one that is not.
ThreadCalls ==
    LET x == PointerTo(TStruct(<<Field("Port", TRUE, Tag(KeyA, <<required>>), TInt)>>))
    IN  {[m |-> (KeyA :> <<"1">>), x |-> x], [m |-> << >>, x |-> x]}

InitThreads ==
    /\ Separator = <<";">>
    /\ validatorMu = Unlocked
    /\ threads = [t \in Threads |-> Idle]
    /\ stored = {}
    /\ validator = NilValidator
    /\ pc = "idle"
    /\ target = NoTarget
    /\ arg = NoCall
    /\ envs = << >>
    /\ err = NotReturned
    /\ val = NilValidator
    /\ structCalls = << >>
    /\ result = NotReturned
    /\ fn = NoCall

\* The state of the one caller of the other specifications, which the
\* goroutines leave alone.
caller ==
    <<Separator, pc, target, arg, envs, err, val, structCalls, result, fn>>

\* Goroutine t goes to the position pc.
At(t, position) ==
    [threads EXCEPT ![t].pc = position]

\* go SetValidator(x), line 35
GoSetValidator(t, x) ==
    /\ threads[t].pc = "idle"
    /\ threads' = [threads EXCEPT ![t] = [Idle EXCEPT !.pc = "Lock", !.op = "SetValidator",
                                                      !.x = x]]
    /\ UNCHANGED <<validator, validatorMu, stored, caller>>

\* r is what unmarshal answered to goroutine t, lines 147-149.
threadDecoded(t, r) ==
    threads' = [threads EXCEPT ![t] = [Idle EXCEPT !.op = "Unmarshal", !.err = r.err,
                                                   !.pc = IF r.err # NoError
                                                          THEN "returned"
                                                          ELSE "RLock"]]

\* go Unmarshal(m, x) up to the return of unmarshal, lines 146-149
GoUnmarshal(t, m, x) ==
    /\ threads[t].pc = "idle"
    /\ threadDecoded(t, unmarshal(m, x))
    /\ UNCHANGED <<validator, validatorMu, stored, caller>>

\* validatorMu.Lock(), line 36: the writers' mutex is taken.
Lock(t) ==
    /\ threads[t].pc = "Lock"
    /\ validatorMu.w = 0
    /\ validatorMu' = [validatorMu EXCEPT !.w = t]
    /\ threads' = At(t, "announce")
    /\ UNCHANGED <<validator, stored, caller>>

\* validatorMu.Lock(), line 36: the writer is announced to the readers.
Announce(t) ==
    /\ threads[t].pc = "announce"
    /\ validatorMu' = [validatorMu EXCEPT !.announced = TRUE]
    /\ threads' = At(t, "wait")
    /\ UNCHANGED <<validator, stored, caller>>

\* validatorMu.Lock(), line 36: the readers that held the lock have left.
Locked(t) ==
    /\ threads[t].pc = "wait"
    /\ validatorMu.active = {}
    /\ threads' = At(t, "write")
    /\ UNCHANGED <<validator, validatorMu, stored, caller>>

\* validator = v, line 38: the first word of the interface value.
WriteType(t) ==
    /\ threads[t].pc = "write"
    /\ validator' = [validator EXCEPT !.nil = threads[t].x.nil]
    /\ threads' = At(t, "write data")
    /\ UNCHANGED <<validatorMu, stored, caller>>

\* validator = v, line 38: the second word.
WriteData(t) ==
    /\ threads[t].pc = "write data"
    /\ validator' = threads[t].x
    /\ stored' = stored \cup {threads[t].x}
    /\ threads' = At(t, "Unlock")
    /\ UNCHANGED <<validatorMu, caller>>

\* defer validatorMu.Unlock(), line 37
Unlock(t) ==
    /\ threads[t].pc = "Unlock"
    /\ validatorMu' = [w |-> 0, announced |-> FALSE, active |-> validatorMu.blocked,
                       blocked |-> {}]
    /\ threads' = At(t, "returned")
    /\ UNCHANGED <<validator, stored, caller>>

\* getValidator, were it to read the slot without the lock.
RLockNotTaken(t) ==
    /\ threads[t].pc = "RLock"
    /\ threads' = At(t, "read")
    /\ UNCHANGED <<validator, validatorMu, stored, caller>>

\* validatorMu.RLock(), line 42: the reader has the lock, or with a writer
\* announced it blocks.
RLock(t) ==
    /\ threads[t].pc = "RLock"
    /\ IF validatorMu.announced
       THEN /\ validatorMu' = [validatorMu EXCEPT !.blocked = @ \cup {t}]
            /\ threads' = At(t, "blocked")
       ELSE /\ validatorMu' = [validatorMu EXCEPT !.active = @ \cup {t}]
            /\ threads' = At(t, "read")
    /\ UNCHANGED <<validator, stored, caller>>

\* validatorMu.RLock(), line 42: the blocked reader has been let in.
Woken(t) ==
    /\ threads[t].pc = "blocked"
    /\ t \in validatorMu.active
    /\ threads' = At(t, "read")
    /\ UNCHANGED <<validator, validatorMu, stored, caller>>

\* return validator, line 44
Read(t) ==
    /\ threads[t].pc = "read"
    /\ threads' = [threads EXCEPT ![t].val = validator, ![t].reads = @ + 1,
                                  ![t].pc = "RUnlock"]
    /\ UNCHANGED <<validator, validatorMu, stored, caller>>

\* defer validatorMu.RUnlock(), line 43, and the test of line 151
RUnlock(t) ==
    /\ threads[t].pc = "RUnlock"
    /\ validatorMu' = [validatorMu EXCEPT !.active = @ \ {t}]
    /\ threads' = At(t, IF threads[t].val.nil THEN "returned" ELSE "validate")
    /\ UNCHANGED <<validator, stored, caller>>

\* return val.Struct(v), line 152
ThreadStruct(t) ==
    /\ threads[t].pc = "validate"
    /\ threads' = At(t, "returned")
    /\ UNCHANGED <<validator, validatorMu, stored, caller>>

\* The call of goroutine t has returned; the goroutine is ready for its next.
ThreadReturn(t) ==
    /\ threads[t].pc = "returned"
    /\ threads' = [threads EXCEPT ![t] = Idle]
    /\ UNCHANGED <<validator, validatorMu, stored, caller>>

\* A step of goroutine t inside a call.
Step(t) ==
    \/ Announce(t)
    \/ Locked(t)
    \/ WriteType(t)
    \/ WriteData(t)
    \/ Unlock(t)
    \/ RLock(t)
    \/ Woken(t)
    \/ Read(t)
    \/ RUnlock(t)
    \/ ThreadStruct(t)

NextThreads ==
    \E t \in Threads :
        \/ \E x \in StoredValidators : GoSetValidator(t, x)
        \/ \E c \in ThreadCalls : GoUnmarshal(t, c.m, c.x)
        \/ Lock(t)
        \/ Announce(t)
        \/ Locked(t)
        \/ WriteType(t)
        \/ WriteData(t)
        \/ Unlock(t)
        \/ RLock(t)
        \/ Woken(t)
        \/ Read(t)
        \/ RUnlock(t)
        \/ ThreadStruct(t)
        \/ ThreadReturn(t)

\* The scheduler runs every goroutine that can take a step, and the
\* writers' mutex, a sync.Mutex, does not starve a goroutine waiting for it.
SpecThreads ==
    /\ InitThreads
    /\ [][NextThreads]_vars
    /\ \A t \in Threads : WF_vars(Step(t)) /\ SF_vars(Lock(t))

\* Goroutine t is where it writes the slot, or reads it.
Writing(t) ==
    threads[t].pc \in {"write", "write data", "Unlock"}

Reading(t) ==
    threads[t].pc \in {"read", "RUnlock"}

\* The slot is written under the lock held exclusively and read under the
\* lock held shared.
LockHeld ==
    \A t \in Threads :
        /\ Writing(t) =>
              /\ validatorMu.w = t
              /\ validatorMu.announced
              /\ validatorMu.active = {}
              /\ \A u \in Threads \ {t} : ~Writing(u) /\ ~Reading(u)
        /\ Reading(t) => t \in validatorMu.active

\* A read of the slot comes after the decode of an Unmarshal, and has
\* observed nil or a validator that a call of SetValidator stored.
ReadsStored ==
    \A t \in Threads :
        threads[t].reads > 0 =>
            /\ threads[t].op = "Unmarshal"
            /\ threads[t].err = NoError
            /\ threads[t].pc \in {"RUnlock", "validate", "returned"}
            /\ threads[t].val \in {NilValidator} \cup stored

\* The Unmarshal of goroutine t has read the slot and released the lock.
PastRead(t) ==
    threads[t].op = "Unmarshal" /\ threads[t].pc \in {"validate", "returned"}

\* C11, as stated: the slot is read and written under the lock, writers
\* exclusive and readers shared, and each Unmarshal reads the slot once,
\* after its decode, observing nil or a stored validator.
C11_EveryUnmarshalReadsOnce ==
    /\ LockHeld
    /\ ReadsStored
    /\ \A t \in Threads : PastRead(t) => threads[t].reads = 1

\* C11, as amended: with goroutines calling SetValidator and Unmarshal
\* concurrently, every read and write of the slot happens under the lock,
\* writers exclusive and readers shared; an Unmarshal whose decode returned
\* no error reads the slot once, after the decode, and observes nil or a
\* validator that a SetValidator stored, never an intermediate value; an
\* Unmarshal whose decode returned an error returns without reading the
\* slot or taking the lock; every call that asks for the lock gets it, and
\* every call returns.
C11_LockedSlotAndProgress ==
    /\ [](LockHeld /\ ReadsStored)
    /\ [](\A t \in Threads :
             PastRead(t) => threads[t].reads = IF threads[t].err = NoError THEN 1 ELSE 0)
    /\ \A t \in Threads :
          /\ (threads[t].pc = "Lock") ~> Writing(t)
          /\ (threads[t].pc = "RLock") ~> Reading(t)
          /\ (threads[t].pc # "idle") ~> (threads[t].pc = "returned")

\* C11: a goroutine has read under the shared lock the validator that a
\* SetValidator stored, while another goroutine, a writer that has taken the
\* writers' mutex and announced itself, waits for it to leave.
C11_Witness ==
    \E t \in Threads, u \in Threads :
        /\ threads[t].pc = "RUnlock"
        /\ threads[t].reads = 1
        /\ ~threads[t].val.nil
        /\ threads[t].val \in stored
        /\ threads[u].pc = "wait"
        /\ validatorMu.active = {t}

(***************************************************************************)
(* Record-typed fields.                                                    *)
(***************************************************************************)
\* Of the slots, those of the fields that are no record.
LeafSlots(slots) ==
    SelectSeq(slots, LAMBDA slot : slot.field.type.kind # "Struct")

\* C12: of a record the walk enters, the fields are resolved against the
\* same mapping, in order with the fields around the record, and the errors
\* of the recursion are joined; the record-typed field is not itself
\* resolved or coerced, so the joined error holds the errors of the fields
\* that are no record and nothing else, a required field missing in the
\* nested record is among them, and the fields outside it are populated.
C12_RecordFieldsOnlyRecursed ==
    Walked =>
        LET slots == LeafSlots(WalkedSlots)
        IN  Accumulated(slots, Fates(slots, 1, arg.envs, << >>, FALSE))

(***************************************************************************)
(* set on its own: one numeral coerced into one integer field.             *)
(***************************************************************************)
MaxDigits ==
    4

NumeralChars ==
    {"-", "+", "0", "1", "2", "3", "5", "8"}

Numerals ==
    {<< >>} \cup SeqsUpTo(NumeralChars, MaxDigits)

\* Integers of the platform's width and of eight bits, signed and unsigned.
IntegerTypes ==
    {TInt, TInt8, TUint, TUint8}

InitInt ==
    /\ Separator = <<";">>
    /\ Loaded
    /\ fn \in {SetCall(t, value, << >>) : t \in IntegerTypes, value \in Numerals}

NextInt ==
    SetApplied

SpecInt ==
    InitInt /\ [][NextInt]_vars

\* The text is a numeral for the kind: one or more decimal digits, with for
\* the signed kinds a sign before them.
IsNumeral(kind, text) ==
    LET signed == kind \in IntKinds /\ text # << >> /\ text[1] \in {"+", "-"}
        digits == IF signed THEN Tail(text) ELSE text
    IN  /\ digits # << >>
        /\ \A i \in 1..Len(digits) : IsDigit(digits[i])

RECURSIVE PowerOfTen(_)
PowerOfTen(n) ==
    IF n = 0 THEN 1 ELSE 10 * PowerOfTen(n - 1)

RECURSIVE SumOfDigits(_, _)
\* The digits from position i on, each weighted by its place.
SumOfDigits(digits, i) ==
    IF i > Len(digits)
    THEN 0
    ELSE DigitValue(digits[i]) * PowerOfTen(Len(digits) - i) + SumOfDigits(digits, i + 1)

\* The number a numeral denotes.
Denoted(text) ==
    IF text[1] = "-"
    THEN 0 - SumOfDigits(Tail(text), 1)
    ELSE IF text[1] = "+"
    THEN SumOfDigits(Tail(text), 1)
    ELSE SumOfDigits(text, 1)

\* The numbers an integer of the kind holds; the numerals of the model are
\* all within the platform's width.
InRange(kind, n) ==
    CASE kind = "Int8" -> n \in (0 - 128)..127
      [] kind = "Uint8" -> n \in 0..255
      [] kind = "Uint" -> n >= 0
      [] OTHER -> TRUE

\* set has been applied to an integer field.
IntegerSet ==
    /\ fn.op = "set"
    /\ fn.applied
    /\ fn.type.kind \in IntKinds \cup UintKinds

\* C13: whenever the coercion of a text into a signed or unsigned integer
\* field succeeds, the text is a numeral, the number it denotes is within
\* the range of the field's width, and the field holds that number; a
\* numeral out of that range is a coercion failure.
C13_IntegerWithinWidth ==
    (IntegerSet /\ fn.out.err = NoError) =>
        /\ IsNumeral(fn.type.kind, fn.value)
        /\ InRange(fn.type.kind, Denoted(fn.value))
        /\ fn.out.f = IntValue(Denoted(fn.value))

(***************************************************************************)
(* Fields that name the same key.                                          *)
(***************************************************************************)
\* The slots that are annotated with the key.
Naming(slots, key) ==
    {k \in 1..Len(slots) : slots[k].field.tag # << >> /\ slots[k].tf.Key = key}

\* 0, or the first of the slots annotated with the key.
FirstNamed(slots, key) ==
    IF Naming(slots, key) = {} THEN 0 ELSE MinOf(Naming(slots, key))

\* The slots annotated with the key that can take the mapping's value:
\* settable, and the value is coerced into them without error.
Takers(slots, key) ==
    {k \in Naming(slots, key) :
        /\ Settable(slots[k])
        /\ set(slots[k].field.type, ZeroValue(slots[k].field.type), arg.envs[key],
               slots[k].tf.Separator).err = NoError}

\* 0, or the first slot in walk order that can take the value of the key.
FirstTaker(slots, key) ==
    IF Takers(slots, key) = {} THEN 0 ELSE MinOf(Takers(slots, key))

\* Slot k, settable, has been resolved as with its key absent: from its
\* default, or left at its zero value with the required-field error or none.
ResolvedAsAbsent(slot, fates, k) ==
    IF slot.tf.Default # << >>
    THEN CoercedFrom(slot, fates, k, slot.tf.Default)
    ELSE /\ ValueAt(target.value, slot.path) = ZeroValue(slot.field.type)
         /\ OwnErrors(fates, k) =
               IF slot.tf.Required THEN <<RequiredNotFound(slot.tf.Key)>> ELSE << >>

\* Slot k, annotated with a key of the mapping, with the slot `first` having
\* consumed the key (0: no slot has).  Before the consumer and at it a
\* settable field has the outcome of coercing the mapping's value; after it
\* a field sees the key as absent.
SharedKeyOutcome(slot, fates, k, first) ==
    LET later == first # 0 /\ k > first
    IN  IF Settable(slot)
        THEN IF later
             THEN ResolvedAsAbsent(slot, fates, k)
             ELSE CoercedFrom(slot, fates, k, arg.envs[slot.tf.Key])
        ELSE IF slot.field.type.kind # "Struct"
        THEN ValueAt(target.value, slot.path) = ZeroValue(slot.field.type)
        ELSE later => OwnErrors(fates, k) \in {<< >>, <<RequiredNotFound(slot.tf.Key)>>}

\* C14, as stated: of two or more annotated fields that name one key of the
\* mapping, the first in walk order receives the mapping's value and the key is then
\* gone; every later one sees the key as absent: it takes its default, stays
\* at its zero value, or raises required-field-not-found.
C14_FirstNamedFieldTakes ==
    Walked =>
        LET slots == WalkedSlots
            fates == WalkedFates(slots)
        IN  \A key \in DOMAIN arg.envs :
                Cardinality(Naming(slots, key)) >= 2 =>
                    /\ key \notin DOMAIN envs
                    /\ \A k \in Naming(slots, key) :
                          SharedKeyOutcome(slots[k], fates, k, FirstNamed(slots, key))

\* C14, as amended: the key is deleted when a field consumes it, that is
\* when a settable field is coerced from the mapping's value without error.
\* Of the annotated fields that name one key of the mapping, the first in
\* walk order to consume it receives the value; the fields before it, not
\* settable or failing to coerce the value, leave the key in place; every
\* field after it sees the key as absent: it takes its default, stays at its
\* zero value, or raises required-field-not-found.  The key is gone exactly
\* when some field consumed it.
C14_FirstConsumerTakes ==
    Walked =>
        LET slots == WalkedSlots
            fates == WalkedFates(slots)
        IN  \A key \in DOMAIN arg.envs :
                /\ Takers(slots, key) # {} <=> key \notin DOMAIN envs
                /\ \A k \in Naming(slots, key) :
                      SharedKeyOutcome(slots[k], fates, k, FirstTaker(slots, key))

\* C14: of two settable fields naming the key A, which the mapping holds,
\* the first has the mapping's value and the second, required and declared
\* after it, has raised required-field-not-found and is at its zero value;
\* the key is gone.
C14_Witness ==
    /\ Walked
    /\ KeyA \in DOMAIN arg.envs
    /\ KeyA \notin DOMAIN envs
    /\ LET slots == WalkedSlots
       IN  /\ Len(slots) = 2
           /\ Naming(slots, KeyA) = {1, 2}
           /\ Settable(slots[1])
           /\ Settable(slots[2])
           /\ FirstTaker(slots, KeyA) = 1
           /\ slots[2].tf.Required
           /\ slots[1].field.type.kind = "String"
           /\ target.value.fields[1] = StringValue(arg.envs[KeyA])
           /\ target.value.fields[2] = ZeroValue(slots[2].field.type)
           /\ Leaves(err) = <<RequiredNotFound(KeyA)>>

=============================================================================
